---- MODULE Spec2Model ----
(***************************************************************************)
(* The Capitol Wire web-push backend.                                      *)
(*                                                                         *)
(* Two builds of the service share the registry and the broadcast loop:    *)
(*   "unified"  src/server.js          (/health /subscribe /broadcast      *)
(*                                      /ingest: summarizer, Pushover,     *)
(*                                      then the same broadcast)           *)
(*   "patched"  src/unnamed/part_000   (/health /subscribe /purge-subs     *)
(*                                      /broadcast with a failures list)   *)
(* The registry is a JavaScript Map, endpoint -> subscription object, and  *)
(* a broadcast walks it with a live Map iterator, awaiting each delivery   *)
(* inside the loop.  Every handler runs to its next await without          *)
(* interleaving (one Node.js event loop), so one action is one such run.   *)
(***************************************************************************)
EXTENDS Integers, Sequences, FiniteSets, TLC

\* ---------------------------------------------------------------- bounds
Procs == {1, 2}                 \* slots for open broadcast requests
MaxAttempts == 3                \* delivery attempts one broadcast may start

\* ------------------------------------------------------- delivery results
Delivered == 201                \* sendNotification resolved
NoStatus == 0                   \* rejected with an error without statusCode
ErrMessage == 1                 \* err.message of such an error
StatusCodes == {400, 401, 403, 404, 410, 429, 500}
Outcomes == {Delivered, NoStatus} \cup StatusCodes

Secret == "s3cret"
\* the X-HillPulse-Key and Authorization headers of a request ("" = absent)
Requests == {[xkey |-> Secret, authz |-> ""],
             [xkey |-> "", authz |-> "Bearer " \o Secret],
             [xkey |-> "nope", authz |-> "Bearer " \o Secret],
             [xkey |-> "", authz |-> ""]}
\* one request that carries the key and one that does not
KeyRequests == {[xkey |-> Secret, authz |-> ""],
                [xkey |-> "nope", authz |-> "Bearer " \o Secret]}

\* the deployments: the README requires INGEST_SECRET; the unified build runs
\* with or without VAPID keys
Configs == {<<"unified", Secret, TRUE>>, <<"unified", Secret, FALSE>>,
            <<"patched", Secret, TRUE>>}

NoEntry == [endpoint |-> "", sub |-> 0]
NoReport == [status |-> 0, ok |-> FALSE, skipped |-> FALSE, sent |-> 0,
             active |-> 0, removed |-> 0, failures |-> <<>>]
NoResp == [status |-> 0, n |-> 0]

VARIABLES
  variant,         \* which build is running
  INGEST_SECRET,   \* process.env.INGEST_SECRET || ''
  vapid,           \* VAPID_PUBLIC and VAPID_PRIVATE are both set
  subscriptions,   \* the Map, as its entries in insertion order
  pc,              \* per broadcast: "idle", "await" (delivery in flight), "done";
                   \* an ingest also "fetch", "gemini", "wait", "pushover"
  it,              \* per broadcast: entries its Map iterator has passed
  cur,             \* per broadcast: the [endpoint, sub] pair being delivered to
  sent, removed, failures,   \* per broadcast: the handler's locals
  report,          \* per broadcast: the response it has sent
  resp,            \* the last response of a synchronous route: its HTTP status
                   \* and the count it carries (subscribers, count or removed)
  n0,              \* history: registry size when the broadcast started
  attempts,        \* history: deliveries the broadcast has started
  dead,            \* history: 404/410 outcomes the broadcast has received
  other,           \* history: other failed outcomes it has received
  mix,             \* history: what else ran since the broadcast started: "none",
                   \* "del" (only purges or other broadcasts' deletes), "sub" (a
                   \* subscribe)
  GEMINI_API_KEY,  \* the summarizer's key is set
  pushover,        \* PUSHOVER_API_TOKEN and PUSHOVER_USER_KEY are both set
  route,           \* per slot: the handler that holds it, "broadcast" or "ingest"
  gem,             \* per ingest: requests summarizeWithGemini has made
  waits,           \* per ingest: 8-second waits summarizeWithGemini has made
  po,              \* per ingest: what sendPushover did, "none" before it ran
  ires             \* per ingest: status of the response it has sent, 0 before

cfg == <<variant, INGEST_SECRET, vapid, GEMINI_API_KEY, pushover>>
loc == <<sent, removed, failures>>
hist == <<n0, attempts, dead, other, mix>>
ingest == <<route, gem, waits, po, ires>>
vars == <<variant, INGEST_SECRET, vapid, subscriptions, pc, it, cur, sent,
          removed, failures, report, resp, n0, attempts, dead, other, mix,
          GEMINI_API_KEY, pushover, route, gem, waits, po, ires>>

\* ------------------------------------------------------------- the Map
MapKeys(m) == {m[i].endpoint : i \in 1..Len(m)}
MapHas(m, k) == k \in MapKeys(m)
\* position of key k in m, 0 when absent
MapIndex(m, k) == IF MapHas(m, k) THEN CHOOSE i \in 1..Len(m) : m[i].endpoint = k ELSE 0
MapGet(m, k) == m[MapIndex(m, k)].sub

\* a set that appends without looking for the key
MapSetAppends(m, k, v) == Append(m, [endpoint |-> k, sub |-> v])

\* a set that writes a new key over the newest entry
MapSetOverwrites(m, k, v) ==
  IF MapHas(m, k) \/ Len(m) = 0
  THEN IF MapHas(m, k)
       THEN [m EXCEPT ![MapIndex(m, k)] = [endpoint |-> k, sub |-> v]]
       ELSE <<[endpoint |-> k, sub |-> v]>>
  ELSE [m EXCEPT ![Len(m)] = [endpoint |-> k, sub |-> v]]

\* Map.prototype.set: an existing key keeps its position and takes the new
\* value, a new key is appended.
MapSet(m, k, v) ==
  IF MapHas(m, k)
  THEN [m EXCEPT ![MapIndex(m, k)] = [endpoint |-> k, sub |-> v]]
  ELSE Append(m, [endpoint |-> k, sub |-> v])

\* Map.prototype.delete: the entry is dropped, the others keep their order.
MapDelete(m, k) ==
  IF MapHas(m, k)
  THEN SubSeq(m, 1, MapIndex(m, k) - 1) \o SubSeq(m, MapIndex(m, k) + 1, Len(m))
  ELSE m

\* A live iterator counts the entries it has passed: deleting an entry it
\* has passed moves it back by one, and it then sees what is appended later.
ItAfterDelete(its, p) ==
  [x \in Procs |-> IF p > 0 /\ its[x] >= p THEN its[x] - 1 ELSE its[x]]

\* a clear that spares the newest entry
MapClearKeepsLast(m) == IF Len(m) > 1 THEN <<m[Len(m)]>> ELSE <<>>

\* Map.prototype.clear
MapClear(m) == <<>>

\* clear empties every entry: nothing an iterator has passed is left.
ItAfterClear(its) == [x \in Procs |-> 0]

\* an iterator that stops one entry early
IterNextStopsEarly(m, i) ==
  IF i + 1 < Len(m) THEN [done |-> FALSE, value |-> m[i + 1]]
  ELSE [done |-> TRUE, value |-> NoEntry]

\* iterator.next()
IterNext(m, i) ==
  IF i < Len(m) THEN [done |-> FALSE, value |-> m[i + 1]]
  ELSE [done |-> TRUE, value |-> NoEntry]

\* ---------------------------------------------------------------- auth
HeaderOf(req) == IF req.xkey # "" THEN req.xkey ELSE req.authz

assertAuthorized(req) ==
  IF INGEST_SECRET = "" THEN TRUE
  ELSE HeaderOf(req) = INGEST_SECRET \/ HeaderOf(req) = "Bearer " \o INGEST_SECRET

\* ---------------------------------------------------- the catch block
\* the delivery protocol's "this subscription is gone for good" results
PermanentlyDead(code) == code \in {404, 410}

\* a catch block that forgets 410 Gone
EvictsOnly404(v, code) == code = 404

\* what the catch block of the build does with a rejected delivery
Evicts(v, code) ==
  IF v = "unified" THEN code \in {404, 410}
  ELSE code \in {400, 401, 403, 404, 410}

\* code || err?.message
Descriptor(code) == IF code # NoStatus THEN code ELSE ErrMessage

\* a push placed in the else branch, beside the console.error
PushesRetainedOnly(v, code) == v = "patched" /\ ~Evicts(v, code)

\* failures.push runs for every rejected delivery of the patched build
Pushes(v, code) == v = "patched"

\* a handler that answers 500 when nothing was delivered
BroadcastReportFailsOnZero(s, active, r, f) ==
  [status |-> IF s = 0 THEN 500 ELSE 200, ok |-> s > 0, skipped |-> FALSE,
   sent |-> s, active |-> active, removed |-> r, failures |-> f]

\* a handler that reads subscriptions.size before its loop
BroadcastReportStaleActive(s, active, r, f) ==
  [status |-> 200, ok |-> TRUE, skipped |-> FALSE, sent |-> s,
   active |-> active + r, removed |-> r, failures |-> f]

BroadcastReport(s, active, r, f) ==
  [status |-> 200, ok |-> TRUE, skipped |-> FALSE, sent |-> s,
   active |-> active, removed |-> r, failures |-> f]

\* ------------------------------------------------------ the summarizer
MAX_RETRIES == 5

\* a catch block that never rethrows
LastAttemptNever(attempt) == FALSE

\* if (attempt === MAX_RETRIES) throw err
LastAttempt(attempt) == attempt = MAX_RETRIES

\* the broadcast request of slot b has been received and not yet retired
Open(b) == pc[b] # "idle"

\* ------------------------------------------------------------- actions
\* the service after start-up under a deployment of C with the summarizer
\* and Pushover keys of E
InitEnv(C, E) ==
  /\ \E c \in C : variant = c[1] /\ INGEST_SECRET = c[2] /\ vapid = c[3]
  /\ \E e \in E : GEMINI_API_KEY = e[1] /\ pushover = e[2]
  /\ subscriptions = <<>>
  /\ pc = [b \in Procs |-> "idle"]
  /\ it = [b \in Procs |-> 0]
  /\ cur = [b \in Procs |-> NoEntry]
  /\ sent = [b \in Procs |-> 0]
  /\ removed = [b \in Procs |-> 0]
  /\ failures = [b \in Procs |-> <<>>]
  /\ report = [b \in Procs |-> NoReport]
  /\ resp = NoResp
  /\ n0 = [b \in Procs |-> 0]
  /\ attempts = [b \in Procs |-> 0]
  /\ dead = [b \in Procs |-> 0]
  /\ other = [b \in Procs |-> 0]
  /\ mix = [b \in Procs |-> "none"]
  /\ route = [b \in Procs |-> "broadcast"]
  /\ gem = [b \in Procs |-> 0]
  /\ waits = [b \in Procs |-> 0]
  /\ po = [b \in Procs |-> "none"]
  /\ ires = [b \in Procs |-> 0]

\* deployments without summarizer and Pushover keys
InitOver(C) == InitEnv(C, {<<FALSE, FALSE>>})

\* GET /health
Health ==
  /\ resp' = [status |-> 200, n |-> Len(subscriptions)]
  /\ UNCHANGED <<cfg, subscriptions, pc, it, cur, loc, report, hist, ingest>>

\* a subscribe without the endpoint check
SubscribeUnvalidated(req, body) ==
  /\ IF ~assertAuthorized(req)
     THEN /\ resp' = [status |-> 401, n |-> 0]
          /\ UNCHANGED <<subscriptions, mix>>
     ELSE /\ subscriptions' = MapSet(subscriptions, body.endpoint, body.sub)
          /\ resp' = [status |-> 200, n |-> Len(subscriptions')]
          /\ mix' = [b \in Procs |-> IF Open(b) THEN "sub" ELSE mix[b]]
  /\ UNCHANGED <<cfg, pc, it, cur, loc, report, n0, attempts, dead, other,
                 ingest>>

\* POST /subscribe; body.endpoint = "" stands for a body without endpoint
Subscribe(req, body) ==
  /\ IF ~assertAuthorized(req)
     THEN /\ resp' = [status |-> 401, n |-> 0]
          /\ UNCHANGED <<subscriptions, mix>>
     ELSE IF body.endpoint = ""
     THEN /\ resp' = [status |-> 400, n |-> 0]
          /\ UNCHANGED <<subscriptions, mix>>
     ELSE /\ subscriptions' = MapSet(subscriptions, body.endpoint, body.sub)
          /\ resp' = [status |-> 200, n |-> Len(subscriptions')]
          /\ mix' = [b \in Procs |-> IF Open(b) THEN "sub" ELSE mix[b]]
  /\ UNCHANGED <<cfg, pc, it, cur, loc, report, n0, attempts, dead, other,
                 ingest>>

\* POST /purge-subs (patched build only)
Purge(req) ==
  /\ variant = "patched"
  /\ IF ~assertAuthorized(req)
     THEN /\ resp' = [status |-> 401, n |-> 0]
          /\ UNCHANGED <<subscriptions, it, mix>>
     ELSE /\ resp' = [status |-> 200, n |-> Len(subscriptions)]
          /\ subscriptions' = MapClear(subscriptions)
          /\ it' = ItAfterClear(it)
          /\ mix' = [b \in Procs |-> IF Open(b) /\ mix[b] = "none" THEN "del" ELSE mix[b]]
  /\ UNCHANGED <<cfg, pc, cur, loc, report, n0, attempts, dead, other,
                 ingest>>

\* the for-of loop from iterator.next() on: either the next delivery is
\* started and the handler suspends at its await, or the loop is over and
\* the report is sent.  m, its, s, r, f are the values the step has reached.
LoopFrom(b, m, its, s, r, f) ==
  LET n == IterNext(m, its[b]) IN
  /\ subscriptions' = m
  /\ sent' = [sent EXCEPT ![b] = s]
  /\ removed' = [removed EXCEPT ![b] = r]
  /\ failures' = [failures EXCEPT ![b] = f]
  /\ IF n.done
     THEN /\ pc' = [pc EXCEPT ![b] = "done"]
          /\ cur' = [cur EXCEPT ![b] = NoEntry]
          /\ it' = its
          /\ report' = [report EXCEPT ![b] = BroadcastReport(s, Len(m), r, f)]
          /\ UNCHANGED attempts
     ELSE /\ attempts[b] < MaxAttempts
          /\ pc' = [pc EXCEPT ![b] = "await"]
          /\ cur' = [cur EXCEPT ![b] = n.value]
          /\ it' = [its EXCEPT ![b] = its[b] + 1]
          /\ attempts' = [attempts EXCEPT ![b] = attempts[b] + 1]
          /\ UNCHANGED report

\* POST /broadcast up to its first await
StartBroadcast(b, req) ==
  /\ pc[b] = "idle"
  /\ IF ~assertAuthorized(req)
     THEN /\ pc' = [pc EXCEPT ![b] = "done"]
          /\ report' = [report EXCEPT ![b] = [NoReport EXCEPT !.status = 401]]
          /\ UNCHANGED <<subscriptions, it, cur, loc, hist>>
     ELSE IF variant = "unified" /\ ~vapid
     THEN /\ pc' = [pc EXCEPT ![b] = "done"]
          /\ report' = [report EXCEPT ![b] =
                          [NoReport EXCEPT !.status = 200, !.skipped = TRUE]]
          /\ UNCHANGED <<subscriptions, it, cur, loc, hist>>
     ELSE /\ n0' = [n0 EXCEPT ![b] = Len(subscriptions)]
          /\ LoopFrom(b, subscriptions, [it EXCEPT ![b] = 0], 0, 0, <<>>)
          /\ UNCHANGED <<dead, other, mix>>
  /\ UNCHANGED <<cfg, resp, ingest>>

\* the awaited delivery settles with `code`; the handler runs on to its next
\* await or to its response
Complete(b, code) ==
  /\ pc[b] = "await"
  /\ LET e == cur[b].endpoint
         ok == code = Delivered
         ev == ~ok /\ Evicts(variant, code)
         m == IF ev THEN MapDelete(subscriptions, e) ELSE subscriptions
         its == IF ev THEN ItAfterDelete(it, MapIndex(subscriptions, e)) ELSE it
         s == IF ok THEN sent[b] + 1 ELSE sent[b]
         r == IF ev THEN removed[b] + 1 ELSE removed[b]
         f == IF ~ok /\ Pushes(variant, code)
              THEN Append(failures[b], Descriptor(code)) ELSE failures[b]
     IN /\ LoopFrom(b, m, its, s, r, f)
        /\ dead' = [dead EXCEPT ![b] = IF PermanentlyDead(code) THEN @ + 1 ELSE @]
        /\ other' = [other EXCEPT ![b] =
                       IF ~ok /\ ~PermanentlyDead(code) THEN @ + 1 ELSE @]
        /\ mix' = [x \in Procs |->
                     IF x # b /\ Open(x) /\ ev /\ mix[x] = "none" THEN "del" ELSE mix[x]]
  /\ ires' = [ires EXCEPT ![b] =
                 IF route[b] = "ingest" /\ pc'[b] = "done" THEN 200 ELSE @]
  /\ UNCHANGED <<cfg, resp, n0, route, gem, waits, po>>

\* The loop reads none of its counts: what a broadcast does next depends on
\* the Map, its iterator and the result alone.  Held is a count that stays
\* at MaxAttempts once it has reached it, which keeps an endless loop within
\* finitely many states.
Held(x) == IF x < MaxAttempts THEN x + 1 ELSE x

\* LoopFrom for a broadcast of any length
LoopHeld(b, m, its, s, r, f) ==
  LET n == IterNext(m, its[b]) IN
  /\ subscriptions' = m
  /\ sent' = [sent EXCEPT ![b] = s]
  /\ removed' = [removed EXCEPT ![b] = r]
  /\ failures' = [failures EXCEPT ![b] = f]
  /\ IF n.done
     THEN /\ pc' = [pc EXCEPT ![b] = "done"]
          /\ cur' = [cur EXCEPT ![b] = NoEntry]
          /\ it' = its
          /\ report' = [report EXCEPT ![b] = BroadcastReport(s, Len(m), r, f)]
          /\ UNCHANGED attempts
     ELSE /\ pc' = [pc EXCEPT ![b] = "await"]
          /\ cur' = [cur EXCEPT ![b] = n.value]
          /\ it' = [its EXCEPT ![b] = its[b] + 1]
          /\ attempts' = [attempts EXCEPT ![b] = Held(attempts[b])]
          /\ UNCHANGED report

\* Complete for a broadcast of any length
CompleteHeld(b, code) ==
  /\ pc[b] = "await"
  /\ LET e == cur[b].endpoint
         ok == code = Delivered
         ev == ~ok /\ Evicts(variant, code)
         m == IF ev THEN MapDelete(subscriptions, e) ELSE subscriptions
         its == IF ev THEN ItAfterDelete(it, MapIndex(subscriptions, e)) ELSE it
         s == IF ok THEN Held(sent[b]) ELSE sent[b]
         r == IF ev THEN Held(removed[b]) ELSE removed[b]
         f == IF ~ok /\ Pushes(variant, code) /\ Len(failures[b]) < MaxAttempts
              THEN Append(failures[b], Descriptor(code)) ELSE failures[b]
     IN /\ LoopHeld(b, m, its, s, r, f)
        /\ dead' = [dead EXCEPT ![b] = IF PermanentlyDead(code) THEN Held(@) ELSE @]
        /\ other' = [other EXCEPT ![b] =
                       IF ~ok /\ ~PermanentlyDead(code) THEN Held(@) ELSE @]
        /\ mix' = [x \in Procs |->
                     IF x # b /\ Open(x) /\ ev /\ mix[x] = "none" THEN "del" ELSE mix[x]]
  /\ ires' = [ires EXCEPT ![b] =
                 IF route[b] = "ingest" /\ pc'[b] = "done" THEN 200 ELSE @]
  /\ UNCHANGED <<cfg, resp, n0, route, gem, waits, po>>

\* the response has gone out; the slot takes the next broadcast request
Finish(b) ==
  /\ pc[b] = "done"
  /\ pc' = [pc EXCEPT ![b] = "idle"]
  /\ it' = [it EXCEPT ![b] = 0]
  /\ sent' = [sent EXCEPT ![b] = 0]
  /\ removed' = [removed EXCEPT ![b] = 0]
  /\ failures' = [failures EXCEPT ![b] = <<>>]
  /\ report' = [report EXCEPT ![b] = NoReport]
  /\ n0' = [n0 EXCEPT ![b] = 0]
  /\ attempts' = [attempts EXCEPT ![b] = 0]
  /\ dead' = [dead EXCEPT ![b] = 0]
  /\ other' = [other EXCEPT ![b] = 0]
  /\ mix' = [mix EXCEPT ![b] = "none"]
  /\ route' = [route EXCEPT ![b] = "broadcast"]
  /\ gem' = [gem EXCEPT ![b] = 0]
  /\ waits' = [waits EXCEPT ![b] = 0]
  /\ po' = [po EXCEPT ![b] = "none"]
  /\ ires' = [ires EXCEPT ![b] = 0]
  /\ UNCHANGED <<cfg, subscriptions, cur, resp>>

\* ------------------------------------------------------------- /ingest
\* a step of the ingest handler that is not in broadcastNotification
NoFanout == UNCHANGED <<subscriptions, it, cur, loc, report, hist>>

\* res.status(status).json(...)
Respond(b, status) ==
  /\ pc' = [pc EXCEPT ![b] = "done"]
  /\ ires' = [ires EXCEPT ![b] = status]

\* const wp = await broadcastNotification(...), and the response after it
Fanout(b) ==
  IF ~vapid
  THEN /\ Respond(b, 200)
       /\ report' = [report EXCEPT ![b] =
                       [NoReport EXCEPT !.status = 200, !.skipped = TRUE]]
       /\ UNCHANGED <<subscriptions, it, cur, loc, hist>>
  ELSE /\ n0' = [n0 EXCEPT ![b] = Len(subscriptions)]
       /\ LoopFrom(b, subscriptions, [it EXCEPT ![b] = 0], 0, 0, <<>>)
       /\ mix' = [mix EXCEPT ![b] = "none"]
       /\ ires' = [ires EXCEPT ![b] = IF pc'[b] = "done" THEN 200 ELSE @]
       /\ UNCHANGED <<dead, other>>

\* const po = await sendPushover(...), and the handler from there on
Notify(b) ==
  IF ~pushover
  THEN /\ po' = [po EXCEPT ![b] = "skipped"]
       /\ Fanout(b)
  ELSE /\ pc' = [pc EXCEPT ![b] = "pushover"]
       /\ UNCHANGED <<po, ires>>
       /\ NoFanout

\* const summary = await summarizeWithGemini(...), and the handler from there
Summarize(b) ==
  IF ~GEMINI_API_KEY
  THEN /\ UNCHANGED gem
       /\ Notify(b)
  ELSE /\ gem' = [gem EXCEPT ![b] = @ + 1]
       /\ pc' = [pc EXCEPT ![b] = "gemini"]
       /\ UNCHANGED <<po, ires>>
       /\ NoFanout

\* POST /ingest up to its first await; body.text and body.url say whether
\* the body carries a text and a url
IngestStart(b, req, body) ==
  /\ variant = "unified"
  /\ pc[b] = "idle"
  /\ route' = [route EXCEPT ![b] = "ingest"]
  /\ IF ~assertAuthorized(req)
     THEN /\ Respond(b, 401)
          /\ UNCHANGED <<gem, po>>
          /\ NoFanout
     ELSE IF ~body.text /\ body.url
     THEN /\ pc' = [pc EXCEPT ![b] = "fetch"]
          /\ UNCHANGED <<gem, po, ires>>
          /\ NoFanout
     ELSE IF ~body.text
     THEN /\ Respond(b, 400)
          /\ UNCHANGED <<gem, po>>
          /\ NoFanout
     ELSE Summarize(b)
  /\ UNCHANGED <<cfg, resp, waits>>

\* fetchTweetText has returned the text it found, or '' (found = FALSE)
FetchDone(b, found) ==
  /\ pc[b] = "fetch"
  /\ IF ~found
     THEN /\ Respond(b, 400)
          /\ UNCHANGED <<gem, po>>
          /\ NoFanout
     ELSE Summarize(b)
  /\ UNCHANGED <<cfg, resp, waits, route>>

\* a request of summarizeWithGemini has settled: ok, or 503, another status,
\* a network error or an unreadable body.  gem[b] - 1 is the loop's attempt.
GeminiDone(b, ok) ==
  /\ pc[b] = "gemini"
  /\ IF ok
     THEN /\ UNCHANGED <<gem, waits>>
          /\ Notify(b)
     ELSE IF LastAttempt(gem[b] - 1)
     THEN /\ Respond(b, 500)
          /\ UNCHANGED <<gem, waits, po>>
          /\ NoFanout
     ELSE /\ pc' = [pc EXCEPT ![b] = "wait"]
          /\ waits' = [waits EXCEPT ![b] = @ + 1]
          /\ UNCHANGED <<gem, po, ires>>
          /\ NoFanout
  /\ UNCHANGED <<cfg, resp, route>>

\* the 8 seconds are over: attempt++, the loop test, the next request; a
\* loop that ends without return hands undefined to the handler
WaitDone(b) ==
  /\ pc[b] = "wait"
  /\ IF gem[b] <= MAX_RETRIES
     THEN /\ gem' = [gem EXCEPT ![b] = @ + 1]
          /\ pc' = [pc EXCEPT ![b] = "gemini"]
          /\ UNCHANGED <<po, ires>>
          /\ NoFanout
     ELSE /\ UNCHANGED gem
          /\ Notify(b)
  /\ UNCHANGED <<cfg, resp, route, waits>>

\* the request of sendPushover has settled: r.ok, a failure status, or a
\* rejected fetch, which nothing catches before the handler's catch block
PushoverDone(b, r) ==
  /\ pc[b] = "pushover"
  /\ po' = [po EXCEPT ![b] = r]
  /\ IF r = "threw"
     THEN /\ Respond(b, 500)
          /\ NoFanout
     ELSE Fanout(b)
  /\ UNCHANGED <<cfg, resp, route, gem, waits>>

\* the requests of one bounded universe: broadcast slots P, request headers
\* R, identities I, credential material C, delivery results O
NextOver(P, R, I, C, O) ==
  \/ Health
  \/ \E req \in R, body \in [endpoint : I \cup {""}, sub : C] :
       Subscribe(req, body)
  \/ \E req \in R : Purge(req)
  \/ \E b \in P, req \in R : StartBroadcast(b, req)
  \/ \E b \in P, code \in O : Complete(b, code)
  \/ \E b \in P : Finish(b)

\* the same with the ingest route
NextIngestOver(P, R, I, C, O) ==
  \/ NextOver(P, R, I, C, O)
  \/ \E b \in P, req \in R, body \in [text : BOOLEAN, url : BOOLEAN] :
       IngestStart(b, req, body)
  \/ \E b \in P, found \in BOOLEAN : FetchDone(b, found)
  \/ \E b \in P, ok \in BOOLEAN : GeminiDone(b, ok)
  \/ \E b \in P : WaitDone(b)
  \/ \E b \in P, r \in {"ok", "fail", "threw"} : PushoverDone(b, r)

Ids == {"a", "b", "c"}
Creds == {1, 2}

\* one broadcast at a time over three endpoints, a result of each class
Init == InitOver(Configs)
Next == NextOver({1}, KeyRequests, Ids, {1}, {Delivered, NoStatus, 404, 410, 429})
Spec == Init /\ [][Next]_vars

\* every delivery result, two endpoints
NextCodes == NextOver({1}, KeyRequests, {"a", "b"}, {1}, Outcomes)
SpecCodes == Init /\ [][NextCodes]_vars

\* the registry under refreshed credential material
NextReg == NextOver({1}, KeyRequests, {"a", "b"}, Creds, {Delivered, 410, 429})
SpecReg == Init /\ [][NextReg]_vars

\* two broadcasts in progress at once
NextTwo ==
  NextOver({1, 2}, {[xkey |-> Secret, authz |-> ""]}, {"a", "b"}, {1},
           {Delivered, 410})
SpecTwo == Init /\ [][NextTwo]_vars

\* ingest under every combination of summarizer and Pushover keys
Envs == {<<g, p>> : g \in BOOLEAN, p \in BOOLEAN}
InitIngest == InitEnv(Configs, Envs)
NextIngest ==
  NextIngestOver({1}, KeyRequests, {"a", "b"}, {1}, {Delivered, 410, 429})
SpecIngest == InitIngest /\ [][NextIngest]_vars

\* every way to start the service, INGEST_SECRET left unset among them
AnyConfigs ==
  Configs \cup {<<"unified", "", TRUE>>, <<"patched", "", TRUE>>}
InitAuth == InitEnv(AnyConfigs, Envs)
NextAuth == NextIngestOver({1}, Requests, {"a"}, {1}, {Delivered, 410})
SpecAuth == InitAuth /\ [][NextAuth]_vars

\* one broadcast of any length among subscribes and purges; every delivery
\* that is in flight settles in the end
KeyRequest == [xkey |-> Secret, authz |-> ""]
Settle == \E code \in {Delivered, 410} : CompleteHeld(1, code)
NextLive ==
  \/ \E body \in [endpoint : {"a", "b"}, sub : {1}] : Subscribe(KeyRequest, body)
  \/ Purge(KeyRequest)
  \/ StartBroadcast(1, KeyRequest)
  \/ Settle
  \/ Finish(1)
SpecLive == Init /\ [][NextLive]_vars /\ WF_vars(Settle)

\* ------------------------------------------------------------ claims
AllBodies == [endpoint : Ids \cup {""}, sub : Creds]
SubscribeStep == \E req \in Requests, body \in AllBodies : Subscribe(req, body)
Reported(b) == pc[b] = "done" /\ report[b].ok
\* this step settles a delivery of broadcast b: one of its result counts grows
Settles(b) ==
  sent'[b] + dead'[b] + other'[b] = sent[b] + dead[b] + other[b] + 1

\* C1 as stated: a broadcast over N endpoints that met no interleaved
\* subscribe, got one permanently-dead result and N-1 successes, ends with
\* Count = N-1, delivered = N-1, evicted = 1.
C1_NoSubscribeOnly ==
  \A b \in Procs :
    (Reported(b) /\ mix[b] # "sub" /\ n0[b] >= 1 /\ attempts[b] = n0[b]
       /\ dead[b] = 1 /\ other[b] = 0)
    => /\ Len(subscriptions) = n0[b] - 1
       /\ report[b].sent = n0[b] - 1
       /\ report[b].removed = 1

\* the end state of a broadcast nothing else interfered with
C1_Final ==
  \A b \in Procs :
    (Reported(b) /\ mix[b] = "none" /\ n0[b] >= 1 /\ attempts[b] = n0[b]
       /\ dead[b] = 1 /\ other[b] = 0)
    => /\ Len(subscriptions) = n0[b] - 1
       /\ report[b].sent = n0[b] - 1
       /\ report[b].removed = 1

\* one step: a permanently-dead result, and who may add identities
C1_Step ==
  /\ \A b \in Procs :
       dead'[b] = dead[b] + 1
       => /\ cur[b].endpoint \notin MapKeys(subscriptions')
          /\ removed'[b] = removed[b] + 1
  /\ MapKeys(subscriptions') \subseteq MapKeys(subscriptions) \/ SubscribeStep

\* C1 (amended): a delivery rejected with 404 or 410 removes the endpoint's
\* identity from the registry and adds one to removed, and only a subscribe
\* brings an identity back; a broadcast over N endpoints that met no
\* interleaved subscribe, purge or eviction by another broadcast, got one
\* permanently-dead result and N-1 successes, ends with Count = N-1,
\* sent = N-1, removed = 1.
C1_Eviction == [][C1_Step]_vars /\ []C1_Final

C1_Witness ==
  /\ Reported(1) /\ mix[1] = "none" /\ n0[1] = 3 /\ attempts[1] = 3
  /\ dead[1] = 1 /\ other[1] = 0 /\ Len(subscriptions) = 2

\* C2: a delivery that fails with anything but 404 or 410 (another status
\* code, or an error without status code) leaves the registry as it was.
C2_NonEviction ==
  [][\A b \in Procs :
       other'[b] = other[b] + 1 => subscriptions' = subscriptions]_vars

\* C3: a broadcast attempts the N endpoints registered when it started and
\* no endpoint subscribed while it runs: it never starts more than N
\* deliveries and has made exactly N when it reports.
C3_Snapshot ==
  \A b \in Procs :
    /\ attempts[b] <= n0[b]
    /\ Reported(b) => attempts[b] = n0[b]

\* C4: the deliveries of a broadcast are all started before any of them is
\* awaited: while a delivery of an undisturbed broadcast is in flight, the
\* deliveries to all N of its endpoints have been started.
C4_AllStarted ==
  \A b \in Procs :
    (pc[b] = "await" /\ mix[b] = "none") => attempts[b] = n0[b]

\* C5: an authorized, configured broadcast answers 200 with ok and its
\* counts whatever its deliveries did, also when none succeeded.
C5_NeverFails ==
  \A b \in Procs :
    (pc[b] = "done" /\ report[b].status # 401 /\ ~report[b].skipped)
    => /\ report[b].status = 200
       /\ report[b].ok
       /\ report[b].sent = attempts[b] - dead[b] - other[b]
       /\ report[b].removed <= dead[b] + other[b]

C5_Witness ==
  /\ variant = "patched" /\ Reported(1) /\ attempts[1] = 2
  /\ report[1].sent = 0 /\ report[1].failures = <<ErrMessage, 500>>

C6_Inv ==
  \A b \in Procs :
    /\ variant = "patched" => Len(failures[b]) = dead[b] + other[b]
    /\ variant = "unified" => failures[b] = <<>>
    /\ Reported(b) => report[b].failures = failures[b]
    /\ (Reported(b) /\ variant = "patched" /\ mix[b] = "none" /\ n0[b] = 3
          /\ attempts[b] = 3 /\ dead[b] = 1 /\ other[b] = 1
          /\ \E i \in 1..Len(failures[b]) : failures[b][i] = 429)
       => /\ report[b].sent = 1 /\ report[b].removed = 1
          /\ Len(report[b].failures) = 2
          /\ \E i \in 1..2 : report[b].failures[i] \in {404, 410}
          /\ Len(subscriptions) = 2

\* one settled delivery of the build that keeps the list
C6_Step ==
  \A b \in Procs :
    (variant = "patched" /\ Settles(b))
    => \A code \in Outcomes :
         Complete(b, code)
         => /\ failures'[b] =
                 IF code = Delivered THEN failures[b]
                 ELSE Append(failures[b],
                             IF code = NoStatus THEN ErrMessage ELSE code)
            /\ MapKeys(subscriptions') \in
                 {MapKeys(subscriptions),
                  MapKeys(subscriptions) \ {cur[b].endpoint}}

C7_Unique ==
  \A i, j \in 1..Len(subscriptions) :
    subscriptions[i].endpoint = subscriptions[j].endpoint => i = j

C7_Step ==
  \A body \in AllBodies, req \in Requests :
    (body.endpoint \in MapKeys(subscriptions) /\ assertAuthorized(req)
       /\ Subscribe(req, body))
    => /\ resp' = [status |-> 200, n |-> Len(subscriptions)]
       /\ Len(subscriptions') = Len(subscriptions)
       /\ MapKeys(subscriptions') = MapKeys(subscriptions)
       /\ \E i \in 1..Len(subscriptions') : subscriptions'[i] = body

\* C7: the registry holds at most one entry per identity; a subscribe for a
\* registered identity, with the same or other credential material, answers
\* 200, leaves the count and the identities as they were and leaves the
\* registry holding the credential material it carried.
C7_Idempotent == [][C7_Step]_vars /\ []C7_Unique

\* a delivery to "a" with material 1 is in flight and the registry, which
\* nothing can have deleted from meanwhile, holds "a" with material 2
C7_Witness ==
  /\ variant = "unified" /\ pc[1] = "await" /\ it[1] = 1
  /\ cur[1] = [endpoint |-> "a", sub |-> 1]
  /\ Len(subscriptions) = 2
  /\ subscriptions[1] = [endpoint |-> "a", sub |-> 2]

C8_Step ==
  /\ \A req \in Requests, body \in AllBodies :
       (body.endpoint # "" /\ body.endpoint \notin MapKeys(subscriptions)
          /\ assertAuthorized(req) /\ Subscribe(req, body))
       => /\ Len(subscriptions') = Len(subscriptions) + 1
          /\ SubSeq(subscriptions', 1, Len(subscriptions)) = subscriptions
          /\ MapKeys(subscriptions') = MapKeys(subscriptions) \cup {body.endpoint}
          /\ resp' = [status |-> 200, n |-> Len(subscriptions) + 1]
  /\ \A b \in Procs :
       (Settles(b) /\ removed'[b] = removed[b]) => subscriptions' = subscriptions
  /\ (resp' # resp /\ resp'.status = 200)
       => resp'.n \in {Len(subscriptions), Len(subscriptions')}

\* C8: a subscribe with a new identity adds exactly that identity, keeps
\* every entry there was and returns the new size; a settled delivery that
\* evicts nothing leaves the registry alone; every count a synchronous route
\* returns is the size of the registry before or after its step.
C8_Atomic == [][C8_Step]_vars

C8_Witness ==
  /\ pc[1] = "await" /\ n0[1] = 1 /\ removed[1] = 0 /\ mix[1] = "sub"
  /\ Len(subscriptions) = 2 /\ resp = [status |-> 200, n |-> 2]

\* C9: an authorized purge returns the size the registry had and leaves it
\* empty, also while a broadcast is in progress.
C9_ClearTotal ==
  [][\A req \in Requests :
       (assertAuthorized(req) /\ Purge(req))
       => /\ resp' = [status |-> 200, n |-> Len(subscriptions)]
          /\ Len(subscriptions') = 0]_vars

\* a purge of two entries was the last synchronous request, handled while
\* the delivery of slot 1 is in flight
C9_Witness ==
  /\ variant = "patched" /\ pc[1] = "await" /\ mix[1] = "del"
  /\ resp = [status |-> 200, n |-> 2] /\ Len(subscriptions) = 0

C10_Inv ==
  \A b \in Procs :
    report[b] # NoReport
    => /\ pc[b] = "done"
       /\ cur[b] = NoEntry
       /\ report[b].ok => sent[b] + dead[b] + other[b] = attempts[b]

C10_Step ==
  \A b \in Procs :
    (report'[b] # report[b] /\ report'[b].ok) => it'[b] = Len(subscriptions')

\* C10: a broadcast that has reported has no delivery in flight, has seen
\* the result of every delivery it started and, when it reports, has passed
\* every entry of the registry.
C10_AfterAll == [][C10_Step]_vars /\ []C10_Inv

C10_Witness ==
  /\ Reported(1) /\ attempts[1] = 3 /\ report[1].sent = 1
  /\ dead[1] = 1 /\ other[1] = 1

\* the report against the handler's state in the step that sends it, and one
\* settled delivery of a broadcast nothing else has interfered with: it is
\* counted as sent, as removed with its entry gone, or as neither
C11_Step ==
  \A b \in Procs :
    /\ (report'[b] # report[b] /\ report'[b].ok)
       => /\ report'[b].active = Len(subscriptions')
          /\ report'[b].sent = sent'[b]
          /\ report'[b].removed = removed'[b]
    /\ (Settles(b) /\ mix[b] = "none")
       => \/ /\ sent'[b] = sent[b] + 1 /\ removed'[b] = removed[b]
             /\ subscriptions' = subscriptions
          \/ /\ sent'[b] = sent[b] /\ removed'[b] = removed[b] + 1
             /\ Len(subscriptions') = Len(subscriptions) - 1
          \/ /\ sent'[b] = sent[b] /\ removed'[b] = removed[b]
             /\ subscriptions' = subscriptions

C11_Inv ==
  \A b \in Procs :
    (Reported(b) /\ mix[b] = "none")
    => /\ report[b].active = n0[b] - report[b].removed
       /\ attempts[b] = n0[b]
       /\ report[b].removed <= dead[b] + other[b]
       /\ report[b].sent + report[b].removed
            + (dead[b] + other[b] - report[b].removed) = attempts[b]

\* C11: the active field of a report is the size of the registry when the
\* report is sent, the broadcast's evictions applied; a broadcast that met
\* no subscribe, purge or other broadcast reports active = size at its start
\* - removed, and its sent, removed and retained failures add up to the
\* endpoints it attempted.
C11_Active == [][C11_Step]_vars /\ []C11_Inv

C11_Witness ==
  /\ Reported(1) /\ mix[1] = "none" /\ n0[1] = 3
  /\ report[1].active = 2 /\ report[1].removed = 1 /\ report[1].sent = 1

C12_Step ==
  \A req \in Requests, body \in AllBodies :
    (body.endpoint = "" /\ Subscribe(req, body))
    => /\ resp'.status = IF assertAuthorized(req) THEN 400 ELSE 401
       /\ subscriptions' = subscriptions

C12_Inv ==
  \A i \in 1..Len(subscriptions) :
    /\ subscriptions[i].endpoint # ""
    /\ MapIndex(subscriptions, subscriptions[i].endpoint) = i

\* C12: a subscribe whose body has no endpoint is rejected (400 for a
\* caller that passed the key check) and leaves the registry and its count
\* as they were; every entry of the registry has a non-empty identity and is
\* the entry found under that identity.
C12_Validated == [][C12_Step]_vars /\ []C12_Inv

\* a subscribe without endpoint was rejected on a registry of two
C12_Witness ==
  /\ resp = [status |-> 400, n |-> 0] /\ Len(subscriptions) = 2

\* C13: an ingest request that got as far as sendPushover, whatever that
\* did (skipped, success, failure status, rejected fetch), runs the web-push
\* broadcast and answers 200 with the broadcast's report.
C13_Independent ==
  \A b \in Procs :
    (route[b] = "ingest" /\ pc[b] = "done" /\ po[b] # "none")
    => /\ ires[b] = 200
       /\ report[b] # NoReport

\* C14: under every configuration, a subscribe, purge, broadcast or ingest
\* request whose key header is neither the secret nor "Bearer <secret>" is
\* answered 401, starts no delivery and leaves the registry as it was.
C14_Unauthorized ==
  [][\A req \in Requests :
       HeaderOf(req) \notin {INGEST_SECRET, "Bearer " \o INGEST_SECRET}
       => /\ \A body \in AllBodies :
               Subscribe(req, body)
               => (resp'.status = 401 /\ subscriptions' = subscriptions)
          /\ Purge(req)
               => (resp'.status = 401 /\ subscriptions' = subscriptions)
          /\ \A b \in Procs :
               StartBroadcast(b, req)
               => /\ report'[b].status = 401 /\ pc'[b] = "done"
                  /\ attempts' = attempts /\ subscriptions' = subscriptions
          /\ \A b \in Procs, body \in [text : BOOLEAN, url : BOOLEAN] :
               IngestStart(b, req, body)
               => /\ ires'[b] = 401 /\ pc'[b] = "done"
                  /\ attempts' = attempts /\ subscriptions' = subscriptions]_vars

\* C15: every increment of a broadcast's removed count goes with one entry
\* that this step of the broadcast takes out of the registry, so the removed
\* counts never add up to more than the entries broadcasts deleted.
C15_RemovedIsDeleted ==
  [][\A b \in Procs :
       removed'[b] = removed[b] + 1
       => /\ MapHas(subscriptions, cur[b].endpoint)
          /\ Len(subscriptions') = Len(subscriptions) - 1]_vars

\* C16: when the registry holds, for the identity of a delivery in flight,
\* other credential material than the delivery was started with (the
\* identity was re-subscribed meanwhile), a 404 or 410 result of that
\* delivery leaves the newer subscription in the registry.
C16_KeepsRefreshed ==
  [][\A b \in Procs :
       (/\ dead'[b] = dead[b] + 1
        /\ MapHas(subscriptions, cur[b].endpoint)
        /\ MapGet(subscriptions, cur[b].endpoint) # cur[b].sub)
       => /\ MapHas(subscriptions', cur[b].endpoint)
          /\ MapGet(subscriptions', cur[b].endpoint)
               = MapGet(subscriptions, cur[b].endpoint)]_vars

\* C17: a broadcast delivers to each identity at most once; in particular
\* the delivery it starts when one has settled never goes to the identity
\* of the settled one again, whatever was purged, evicted by another
\* broadcast or subscribed meanwhile.
C17_OncePerIdentity ==
  [][\A b \in Procs :
       (pc[b] = "await" /\ attempts'[b] = attempts[b] + 1)
       => cur'[b].endpoint # cur[b].endpoint]_vars

C19_Inv ==
  \A b \in Procs :
    /\ gem[b] <= MAX_RETRIES + 1
    /\ ~GEMINI_API_KEY => gem[b] = 0
    /\ pc[b] = "gemini" => waits[b] = gem[b] - 1
    /\ pc[b] = "wait" => (waits[b] = gem[b] /\ gem[b] <= MAX_RETRIES)
    /\ (pc[b] = "done" /\ ires[b] = 500 /\ po[b] = "none")
       => /\ gem[b] = MAX_RETRIES + 1
          /\ waits[b] = MAX_RETRIES
          /\ attempts[b] = 0
          /\ report[b] = NoReport

C19_Step ==
  \A b \in Procs :
    /\ gem'[b] > gem[b]
       => /\ gem'[b] = gem[b] + 1
          /\ pc[b] \in {"idle", "fetch", "wait"}
          /\ pc'[b] = "gemini"
    /\ (pc[b] = "gemini" /\ pc'[b] # "wait")
       => /\ gem'[b] = gem[b]
          /\ waits'[b] = waits[b]

\* C19: summarizeWithGemini makes at most MAX_RETRIES + 1 = 6 requests; a
\* request is issued only on entry or after a wait, never in the step in
\* which a request settles, so a success ends the loop; each failure but
\* the 6th is followed by one wait; the 6th is raised, and the ingest then
\* answers 500 with no Pushover send and no web-push delivery made.
C19_BoundedRetry == [][C19_Step]_vars /\ []C19_Inv

C19_Witness ==
  /\ route[1] = "ingest" /\ pc[1] = "done" /\ ires[1] = 500
  /\ gem[1] = 6 /\ waits[1] = 5 /\ po[1] = "none" /\ report[1] = NoReport
  /\ Len(subscriptions) = 2

\* C18: every broadcast, each of its deliveries settling in the end, sends
\* its report, whatever subscribes and purges are handled meanwhile.
C18_Terminates == \A b \in Procs : (pc[b] = "await") ~> (pc[b] = "done")

====
